---- MODULE Spec2Model ----
(***************************************************************************)
(* Model of the terrain streaming scheduler of WorldAlpha                  *)
(* (src/terrain/chunk_manager.py, class ChunkManager) together with the    *)
(* thread pool that runs its generation jobs.                              *)
(*                                                                         *)
(* The main thread calls request_chunk, process_queued_chunks and          *)
(* remove_distant_chunks; the workers of the ThreadPoolExecutor run        *)
(* _generate_chunk and deliver their result through ready_meshes.          *)
(*                                                                         *)
(* Priorities are floats in the program (Euclidean distances); only their  *)
(* order matters to the scheduler, so they are modelled by naturals.       *)
(* A PriorityQueue is modelled by the sorted sequence of its entries: get  *)
(* returns the least tuple, and equal tuples are indistinguishable.        *)
(***************************************************************************)
EXTENDS Integers, Sequences, FiniteSets, TLC

VARIABLES
    chunks,                \* self.chunks: position -> live Entity
    generation_queue,      \* self.generation_queue: PriorityQueue of (priority, pos)
    ready_meshes,          \* self.ready_meshes: PriorityQueue of (priority, (pos, mesh))
    currently_generating,  \* self.currently_generating: set of positions
    pool_pending,          \* work queue of the ThreadPoolExecutor (FIFO)
    pool_running,          \* jobs a worker thread is executing
    entities,              \* Entity objects created and not yet disabled
    viewpoint,             \* the chunk the player stands in (main.py, update)
    last,                  \* the last operation and what it did (history)
    delivery,              \* the order in which workers delivered the waiting
                           \* results, and the results overtaken (history)
    phase,                 \* the step of the request/dispatch/drain scenario,
                           \* the positions it requested, the store size before
    stuck,                 \* the positions whose job never returns
    shutdown,              \* thread_pool.shutdown has been called
    asked,                 \* the entries of the generation queue in the order
                           \* they were requested (history)
    stats,                 \* chunks_generated, last_stats_update,
                           \* generation_times, the clock and the last report
    calc                   \* inputs and results of the terrain and biome
                           \* computations

vars == <<chunks, generation_queue, ready_meshes, currently_generating,
          pool_pending, pool_running, entities, viewpoint, last,
          delivery, phase, stuck, shutdown, asked, stats, calc>>

\* the variables that only some specifications use
aux == <<delivery, phase, stuck, shutdown, asked, stats, calc>>

\* the same without one of them
auxButDelivery == <<phase, stuck, shutdown, asked, stats, calc>>
auxButPhase == <<delivery, stuck, shutdown, asked, stats, calc>>
auxButShutdown == <<delivery, phase, stuck, asked, stats, calc>>
auxButAsked == <<delivery, phase, stuck, shutdown, stats, calc>>
auxButStats == <<delivery, phase, stuck, shutdown, asked, calc>>
auxButCalc == <<delivery, phase, stuck, shutdown, asked, stats>>

----------------------------------------------------------------------------
(* Program constants *)

max_mesh_per_frame == 2

max_concurrent_gen == 4

max_workers == 2

border == 2

VIEW_DISTANCE == 10

CHUNK_SIZE == 4

----------------------------------------------------------------------------
(* Bounds of the model *)

\* the callers do not call request_chunk while the generation queue holds
\* MaxQueue entries
MaxQueue == 2

\* the clock stops after MaxTime half seconds
MaxTime == 5

\* chunks have 1 to MaxChunkSize cells on a side
MaxChunkSize == 5

\* the chunk positions the callers use
Positions == { <<0, 0>>, <<1, 1>>, <<4, 0>>, <<0, 5>>, <<13, 2>> }

\* the calls of request_chunk the callers make, as (priority, position):
\* one position is requested with two priorities, two pairs of positions
\* share a priority
Requests == { <<1, <<0, 0>>>>, <<2, <<1, 1>>>>, <<0, <<1, 1>>>>,
              <<2, <<4, 0>>>>, <<3, <<0, 5>>>>, <<3, <<13, 2>>>> }

\* the viewpoint chunks and view distances passed to remove_distant_chunks
Centers == { <<0, 0>> }

ViewDistances == { 2, VIEW_DISTANCE }

\* the positions whose Mesh/Entity construction may raise
RaisingPositions == { <<0, 0>> }

\* the game loop: the chunks the player visits and the positions in reach
Viewpoints == { <<0, 0>>, <<13, 0>> }

TickPositions == { <<0, 0>>, <<1, 1>>, <<13, 2>> }

----------------------------------------------------------------------------
(* Helpers *)

Abs(n) == IF n < 0 THEN -n ELSE n

Max2(a, b) == IF a > b THEN a ELSE b

\* Python's tuple comparison of two positions (x, z)
PosLess(a, b) == a[1] < b[1] \/ (a[1] = b[1] /\ a[2] < b[2])

\* a comparison of the priorities alone: equal priorities keep their order
\* of insertion
EntryLess_PriorityOnly(a, b) == a[1] < b[1]

\* Python's tuple comparison of two queue entries (priority, pos)
EntryLess(a, b) == a[1] < b[1] \/ (a[1] = b[1] /\ PosLess(a[2], b[2]))

\* a first-in first-out put in place of PriorityQueue.put
PQPut_Fifo(q, e) == Append(q, e)

\* PriorityQueue.put: q stays sorted, so that Head(q) is what get returns
PQPut(q, e) ==
    LET k == Cardinality({ i \in 1 .. Len(q) : ~EntryLess(e, q[i]) })
    IN  SubSeq(q, 1, k) \o <<e>> \o SubSeq(q, k + 1, Len(q))

RemoveAt(s, i) == SubSeq(s, 1, i - 1) \o SubSeq(s, i + 1, Len(s))

\* the positions of the entries of a queue
QueuePositions(q) == { q[i][2] : i \in 1 .. Len(q) }

\* number of entries of a queue for position p
CountPos(q, p) == Cardinality({ i \in 1 .. Len(q) : q[i][2] = p })

\* a membership test that never finds the key
InChunks_NeverFound(store, pos) == FALSE

\* `chunk_pos in self.chunks'
InChunks(store, pos) == pos \in DOMAIN store

\* Entity(...): a new object, distinct from every live one
NewEntity(pos, live) ==
    LET k == CHOOSE n \in 0 .. Cardinality(live) :
                 /\ <<pos, n>> \notin live
                 /\ \A j \in 0 .. n - 1 : <<pos, j>> \in live
    IN  <<pos, k>>

----------------------------------------------------------------------------
(* History: the last operation, its arguments and what it did *)

Op(op, args, n) == [op |-> op, args |-> args, n |-> n]

----------------------------------------------------------------------------
(* ChunkManager.__init__ *)

InitScheduler ==
    /\ chunks = <<>>
    /\ generation_queue = <<>>
    /\ ready_meshes = <<>>
    /\ currently_generating = {}
    /\ pool_pending = <<>>
    /\ pool_running = <<>>
    /\ entities = {}
    /\ viewpoint = <<0, 0>>
    /\ last = Op("init", <<>>, 0)

\* lines 23 and 30-32: the pool is open, nothing is counted, the clock
\* starts at the construction time
\* now is time.time(), counted from the construction; report is what the
\* last get_stats call returned (<<>> for None); since, reported_since and
\* report_time are history: the installations since the last report, their
\* number when it was made, and its time (-1 before the first)
InitStats ==
    [chunks_generated |-> 0, last_stats_update |-> 0, generation_times |-> <<>>,
     now |-> 0, report |-> <<>>,
     since |-> 0, reported_since |-> 0, report_time |-> -1]

InitHistory ==
    /\ delivery = [order |-> <<>>, overtaken |-> {}]
    /\ phase = <<"request", {}, 0>>
    /\ shutdown = FALSE
    /\ asked = <<>>
    /\ stats = InitStats

Init ==
    /\ InitScheduler
    /\ InitHistory
    /\ stuck = {}
    /\ calc = <<>>

----------------------------------------------------------------------------
(* ChunkManager.request_chunk *)

\* lines 87-88 without the in-flight test
RequestAdmitted_NoInFlightTest(store, gen, chunk_pos) ==
    ~InChunks(store, chunk_pos)

\* the test that admits a request into the generation queue
RequestAdmitted(store, gen, chunk_pos) ==
    ~InChunks(store, chunk_pos) /\ chunk_pos \notin gen

request_chunk(chunk_pos, priority) ==
    /\ generation_queue' =
           IF RequestAdmitted(chunks, currently_generating, chunk_pos)
           THEN PQPut(generation_queue, <<priority, chunk_pos>>)
           ELSE generation_queue
    /\ last' = Op("request", <<>>,
                  IF RequestAdmitted(chunks, currently_generating, chunk_pos)
                  THEN 1 ELSE 0)
    /\ UNCHANGED <<chunks, ready_meshes, currently_generating,
                   pool_pending, pool_running, entities, viewpoint>>

----------------------------------------------------------------------------
(* ThreadPoolExecutor: submit puts the job on the work queue; an idle      *)
(* worker takes the oldest job at once.  Taking a job has no effect on the *)
(* scheduler, so it is merged with the step that makes it possible.        *)

Submit(st, job) ==
    IF Len(st.running) < max_workers
    THEN [st EXCEPT !.running = PQPut(@, job)]
    ELSE [st EXCEPT !.pending = Append(@, job)]

\* the worker that ran pool_running[i] is done and takes the next job
WorkerNext(i) ==
    IF pool_pending # <<>>
    THEN /\ pool_running' = PQPut(RemoveAt(pool_running, i), Head(pool_pending))
         /\ pool_pending' = Tail(pool_pending)
    ELSE /\ pool_running' = RemoveAt(pool_running, i)
         /\ pool_pending' = pool_pending

----------------------------------------------------------------------------
(* ChunkManager.process_queued_chunks *)

\* the completed meshes loop (lines 55-72); bad is the set of positions
\* whose Mesh/Entity construction raises in this call
\* line 55 with the limit off by one
DrainContinues_OffByOne(meshes_handled, ready) ==
    meshes_handled <= max_mesh_per_frame /\ ready # <<>>

\* the loop condition of line 55
DrainContinues(meshes_handled, ready) ==
    meshes_handled < max_mesh_per_frame /\ ready # <<>>

RECURSIVE DrainReady(_, _, _)
DrainReady(st, meshes_handled, bad) ==
    IF DrainContinues(meshes_handled, st.ready)
    THEN LET chunk_pos == Head(st.ready)[2]
             popped == [st EXCEPT !.ready = Tail(@),
                                  !.popped = Append(@, chunk_pos)]
         IN  IF ~InChunks(st.chunks, chunk_pos)
             THEN IF chunk_pos \in bad
                  THEN [popped EXCEPT !.raised = TRUE]
                  ELSE LET e == NewEntity(chunk_pos, st.entities)
                       IN  DrainReady(
                             [popped EXCEPT
                                !.chunks = [p \in DOMAIN st.chunks \cup {chunk_pos} |->
                                              IF p = chunk_pos THEN e ELSE st.chunks[p]],
                                !.entities = @ \cup {e},
                                !.installed = @ \cup {chunk_pos},
                                !.gen = @ \ {chunk_pos}],
                             meshes_handled + 1, bad)
             ELSE DrainReady([popped EXCEPT !.gen = @ \ {chunk_pos}],
                             meshes_handled + 1, bad)
    ELSE st

\* line 78 without its in-flight test
DispatchAdmitted_NoInFlightTest(store, gen, chunk_pos) ==
    ~InChunks(store, chunk_pos)

\* the test that lets a popped queue entry start a generation (line 78)
DispatchAdmitted(store, gen, chunk_pos) ==
    ~InChunks(store, chunk_pos) /\ chunk_pos \notin gen

\* lines 75-76 with the cap off by one
DispatchContinues_OffByOne(gen, queue) ==
    Cardinality(gen) <= max_concurrent_gen /\ queue # <<>>

\* the loop condition of the dispatch loop (lines 75-76)
DispatchContinues(gen, queue) ==
    Cardinality(gen) < max_concurrent_gen /\ queue # <<>>

\* the start new generations loop (lines 75-80)
RECURSIVE StartGenerations(_)
StartGenerations(st) ==
    IF DispatchContinues(st.gen, st.queue)
    THEN LET entry == Head(st.queue)
             chunk_pos == entry[2]
             got == [st EXCEPT !.queue = Tail(@)]
         IN  IF DispatchAdmitted(st.chunks, st.gen, chunk_pos)
             THEN IF st.shutdown
                  THEN \* line 79 has run, submit raises RuntimeError
                       [got EXCEPT !.gen = @ \cup {chunk_pos},
                                   !.raised = TRUE]
                  ELSE StartGenerations(
                         Submit([got EXCEPT !.gen = @ \cup {chunk_pos},
                                            !.submitted = Append(@, entry)],
                                entry))
             ELSE StartGenerations(got)
    ELSE st

\* the whole call: an exception in the first loop skips the second (line 82)
ProcessResult(bad) ==
    LET st0 == [chunks |-> chunks, entities |-> entities,
                ready |-> ready_meshes, gen |-> currently_generating,
                queue |-> generation_queue,
                pending |-> pool_pending, running |-> pool_running,
                popped |-> <<>>, installed |-> {}, submitted |-> <<>>,
                raised |-> FALSE, shutdown |-> shutdown]
        st1 == DrainReady(st0, 0, bad)
    IN  IF st1.raised THEN st1 ELSE StartGenerations(st1)

process_queued_chunks(bad) ==
    LET st == ProcessResult(bad)
    IN  /\ chunks' = st.chunks
        /\ entities' = st.entities
        /\ ready_meshes' = st.ready
        /\ currently_generating' = st.gen
        /\ generation_queue' = st.queue
        /\ pool_pending' = st.pending
        /\ pool_running' = st.running
        /\ last' = Op("process", <<st.raised, Len(st.submitted)>>, Len(st.popped))
        /\ UNCHANGED viewpoint

----------------------------------------------------------------------------
(* ChunkManager._generate_chunk, run by a worker thread *)

\* the job runs to line 141 and delivers its mesh
generate_chunk_done(i) ==
    /\ i \in 1 .. Len(pool_running)
    /\ ready_meshes' = PQPut(ready_meshes, pool_running[i])
    /\ WorkerNext(i)
    /\ last' = Op("generated", <<>>, 0)
    /\ UNCHANGED <<chunks, generation_queue, currently_generating, entities,
                   viewpoint>>

\* the handler without line 148
FailedMarkers_NotCleared(gen, chunk_pos) == gen

\* line 148: the handler of a failed job clears its in-flight marker
FailedMarkers(gen, chunk_pos) == gen \ {chunk_pos}

\* the job raises before line 141: the handler of lines 146-148 runs
generate_chunk_failed(i) ==
    /\ i \in 1 .. Len(pool_running)
    /\ currently_generating' =
           FailedMarkers(currently_generating, pool_running[i][2])
    /\ WorkerNext(i)
    /\ last' = Op("failed", <<pool_running[i][2]>>, 0)
    /\ UNCHANGED <<chunks, generation_queue, ready_meshes, entities, viewpoint>>

----------------------------------------------------------------------------
(* ChunkManager.remove_distant_chunks and remove_chunk *)

\* line 101 with `>=' for `>'
TooFar_Inclusive(chunk_pos, center_x, center_z, max_distance) ==
    LET dx == Abs(chunk_pos[1] - center_x)
        dz == Abs(chunk_pos[2] - center_z)
    IN  dx >= max_distance \/ dz >= max_distance

\* line 101 with `and' for `or'
TooFar_Both(chunk_pos, center_x, center_z, max_distance) ==
    LET dx == Abs(chunk_pos[1] - center_x)
        dz == Abs(chunk_pos[2] - center_z)
    IN  dx > max_distance /\ dz > max_distance

\* line 101 with the two distances added
TooFar_Manhattan(chunk_pos, center_x, center_z, max_distance) ==
    LET dx == Abs(chunk_pos[1] - center_x)
        dz == Abs(chunk_pos[2] - center_z)
    IN  dx + dz > max_distance

\* the test of line 101
TooFar(chunk_pos, center_x, center_z, max_distance) ==
    LET dx == Abs(chunk_pos[1] - center_x)
        dz == Abs(chunk_pos[2] - center_z)
    IN  dx > max_distance \/ dz > max_distance

\* remove_chunk for every position of gone: disable the entity, delete the
\* key (Entity.disable is taken to return normally)
RemoveChunks(store, gone) == [p \in DOMAIN store \ gone |-> store[p]]

\* remove_chunk without line 179
Disable_Skipped(live, handles) == live

\* line 179: the entities of the removed positions are disabled
Disable(live, handles) == live \ handles

remove_distant_chunks(center_x, center_z, view_distance) ==
    LET max_distance == view_distance + border
        gone == { p \in DOMAIN chunks :
                    TooFar(p, center_x, center_z, max_distance) }
    IN  /\ chunks' = RemoveChunks(chunks, gone)
        /\ entities' = Disable(entities, { chunks[p] : p \in gone })
        /\ last' = Op("evict", <<center_x, center_z, view_distance>>,
                      Cardinality(gone))
        /\ UNCHANGED <<generation_queue, ready_meshes, currently_generating,
                       pool_pending, pool_running, viewpoint>>

----------------------------------------------------------------------------
(* ChunkManager.cleanup: the pool takes no more jobs (the jobs it has are   *)
(* still run, shutdown does not wait for them) and every chunk is removed.  *)

cleanup ==
    /\ shutdown' = TRUE
    /\ chunks' = RemoveChunks(chunks, DOMAIN chunks)
    /\ entities' = Disable(entities, { chunks[p] : p \in DOMAIN chunks })
    /\ last' = Op("cleanup", <<>>, Cardinality(DOMAIN chunks))
    /\ UNCHANGED <<generation_queue, ready_meshes, currently_generating,
                   pool_pending, pool_running, viewpoint>>

----------------------------------------------------------------------------

Request ==
    /\ Len(generation_queue) < MaxQueue
    /\ \E r \in Requests : request_chunk(r[2], r[1])
    /\ UNCHANGED aux

Process ==
    /\ \E bad \in SUBSET RaisingPositions : process_queued_chunks(bad)
    /\ UNCHANGED aux

WorkerDone ==
    /\ \E i \in 1 .. max_workers : generate_chunk_done(i)
    /\ UNCHANGED aux

WorkerFailed ==
    /\ \E i \in 1 .. max_workers : generate_chunk_failed(i)
    /\ UNCHANGED aux

Evict ==
    /\ \E c \in Centers, vd \in ViewDistances : remove_distant_chunks(c[1], c[2], vd)
    /\ UNCHANGED aux

Next == Request \/ Process \/ WorkerDone \/ WorkerFailed \/ Evict

Spec == Init /\ [][Next]_vars

----------------------------------------------------------------------------
(* WorldAlpha._setup_initial_chunks (main.py): the start-up burst.  Every  *)
(* position of the square around the origin is requested before the first  *)
(* process_queued_chunks call; the calls then run while the workers do.    *)

\* six positions of the square of lines 38-39, in the order of the two
\* loops: more than max_concurrent_gen, the farthest first, three at one
\* distance
SetupSeq ==
    << <<-2, -2>>, <<-1, 0>>, <<0, 0>>, <<0, 1>>, <<1, 0>>, <<1, 1>> >>

\* the generation queue after the first n requests of the loop (lines 41-42);
\* the priority is the distance from the origin, kept as its square
RECURSIVE SetupQueue(_)
SetupQueue(n) ==
    IF n = 0 THEN <<>>
    ELSE PQPut(SetupQueue(n - 1),
               <<SetupSeq[n][1] * SetupSeq[n][1] + SetupSeq[n][2] * SetupSeq[n][2],
                 SetupSeq[n]>>)

InitBurst ==
    /\ chunks = <<>>
    /\ generation_queue = SetupQueue(Len(SetupSeq))
    /\ ready_meshes = <<>>
    /\ currently_generating = {}
    /\ pool_pending = <<>>
    /\ pool_running = <<>>
    /\ entities = {}
    /\ viewpoint = <<0, 0>>
    /\ last = Op("request", <<>>, 1)
    /\ InitHistory
    /\ stuck = {}
    /\ calc = <<>>

NextBurst == Process \/ WorkerDone \/ WorkerFailed

SpecBurst == InitBurst /\ [][NextBurst]_vars

----------------------------------------------------------------------------
(* The scheduler with the order of delivery recorded: delivery.order lists  *)
(* the positions of the results waiting in ready_meshes in the order the    *)
(* workers put them (line 141), and delivery.overtaken holds the positions  *)
(* left waiting by the last process_queued_chunks call although it          *)
(* installed a result that was delivered after theirs.                      *)

\* the positions before position b in the sequence order
Before(order, b) ==
    { order[i] : i \in { j \in 1 .. Len(order) :
                           \E k \in j + 1 .. Len(order) : order[k] = b } }

OrderDone ==
    /\ \E i \in 1 .. max_workers :
          /\ generate_chunk_done(i)
          /\ delivery' = [delivery EXCEPT
                             !.order = Append(@, pool_running[i][2])]
    /\ UNCHANGED auxButDelivery

OrderProcess ==
    /\ \E bad \in SUBSET RaisingPositions : process_queued_chunks(bad)
    /\ delivery' =
          [order |-> SelectSeq(delivery.order,
                               LAMBDA p : p \in QueuePositions(ready_meshes')),
           overtaken |->
               { a \in QueuePositions(ready_meshes') :
                    \E b \in (DOMAIN chunks') \ (DOMAIN chunks) :
                        a \in Before(delivery.order, b) }]
    /\ UNCHANGED auxButDelivery

NextOrder == Request \/ OrderProcess \/ OrderDone \/ WorkerFailed \/ Evict

SpecOrder == Init /\ [][NextOrder]_vars

----------------------------------------------------------------------------
(* The scheduler with the order of the requests recorded: asked lists the   *)
(* entries of the generation queue in the order request_chunk put them.     *)

\* seq without the first occurrence of e
RemoveFirst(seq, e) ==
    IF \E i \in 1 .. Len(seq) : seq[i] = e
    THEN RemoveAt(seq, CHOOSE i \in 1 .. Len(seq) :
                          /\ seq[i] = e
                          /\ \A j \in 1 .. i - 1 : seq[j] # e)
    ELSE seq

\* seq without the first occurrence of every entry of es
RECURSIVE RemoveEach(_, _)
RemoveEach(seq, es) ==
    IF es = <<>> THEN seq
    ELSE RemoveEach(RemoveFirst(seq, Head(es)), Tail(es))

AskRequest ==
    /\ Len(generation_queue) < MaxQueue
    /\ \E r \in Requests :
          /\ request_chunk(r[2], r[1])
          /\ asked' = IF RequestAdmitted(chunks, currently_generating, r[2])
                      THEN Append(asked, r) ELSE asked
    /\ UNCHANGED auxButAsked

AskProcess ==
    /\ \E bad \in SUBSET RaisingPositions : process_queued_chunks(bad)
    /\ asked' = RemoveEach(asked,
                           SubSeq(generation_queue, 1,
                                  Len(generation_queue) - Len(generation_queue')))
    /\ UNCHANGED auxButAsked

NextAsk == AskRequest \/ AskProcess \/ WorkerDone \/ WorkerFailed \/ Evict

SpecAsk == Init /\ [][NextAsk]_vars

\* the queue that results from putting the entries of seq, last one first
RECURSIVE PutReversed(_)
PutReversed(seq) ==
    IF seq = <<>> THEN <<>>
    ELSE PQPut(PutReversed(Tail(seq)), Head(seq))

----------------------------------------------------------------------------
(* One cycle of the scheduler on a quiet manager: up to max_mesh_per_frame  *)
(* requests of distinct positions that are neither Queued, Generating nor   *)
(* Loaded, one process_queued_chunks call that dispatches them, the         *)
(* completion of every job, and one more call that drains the results.      *)
(* Cycles follow one another, so that a cycle also starts from a store that *)
(* holds chunks.                                                            *)

ScnRequest ==
    /\ phase[1] = "request"
    /\ Cardinality(phase[2]) < max_mesh_per_frame
    /\ Cardinality(phase[2]) < max_concurrent_gen
    /\ \E r \in Requests :
          /\ r[2] \notin phase[2]
          /\ ~InChunks(chunks, r[2])
          /\ r[2] \notin currently_generating
          /\ request_chunk(r[2], r[1])
          /\ phase' = <<"request", phase[2] \cup {r[2]}, phase[3]>>
    /\ UNCHANGED auxButPhase

ScnDispatch ==
    /\ phase[1] = "request"
    /\ phase[2] # {}
    /\ \E bad \in SUBSET RaisingPositions : process_queued_chunks(bad)
    /\ phase' = <<"generate", phase[2], phase[3]>>
    /\ UNCHANGED auxButPhase

ScnDone ==
    /\ phase[1] = "generate"
    /\ \E i \in 1 .. max_workers : generate_chunk_done(i)
    /\ UNCHANGED aux

ScnDrain ==
    /\ phase[1] = "generate"
    /\ pool_running = <<>>
    /\ pool_pending = <<>>
    /\ \E bad \in SUBSET RaisingPositions : process_queued_chunks(bad)
    /\ phase' = <<"done", phase[2], phase[3]>>
    /\ UNCHANGED auxButPhase

\* the next cycle starts when the manager is quiet again
ScnAgain ==
    /\ phase[1] = "done"
    /\ generation_queue = <<>>
    /\ ready_meshes = <<>>
    /\ currently_generating = {}
    /\ phase' = <<"request", {}, Cardinality(DOMAIN chunks)>>
    /\ UNCHANGED <<chunks, generation_queue, ready_meshes, currently_generating,
                   pool_pending, pool_running, entities, viewpoint, last>>
    /\ UNCHANGED auxButPhase

NextScenario == ScnRequest \/ ScnDispatch \/ ScnDone \/ ScnDrain \/ ScnAgain

SpecScenario == Init /\ [][NextScenario]_vars

----------------------------------------------------------------------------
(* The scheduler under fairness: update calls process_queued_chunks in      *)
(* every frame (main.py, line 141) and a worker that runs a job finishes    *)
(* it.  No job fails and nothing is evicted.                                *)

LiveDone(i) ==
    /\ generate_chunk_done(i)
    /\ UNCHANGED aux

NextLive == Request \/ Process \/ \E i \in 1 .. max_workers : LiveDone(i)

SpecLive ==
    /\ Init
    /\ [][NextLive]_vars
    /\ WF_vars(Process)
    /\ \A i \in 1 .. max_workers : WF_vars(LiveDone(i))

----------------------------------------------------------------------------
(* The scheduler with stuck jobs: the jobs of the positions in stuck never  *)
(* return (_generate_chunk has no timeout); every other job finishes, and   *)
(* no constructor raises.                                                   *)

\* the positions whose generation may hang
StuckPositions == { <<1, 1>>, <<4, 0>> }

InitStuck ==
    /\ InitScheduler
    /\ InitHistory
    /\ calc = <<>>
    /\ stuck \in { S \in SUBSET StuckPositions :
                       Cardinality(S) < max_concurrent_gen }

\* the requests made while jobs hang: the two positions that may hang and
\* one that does not
StuckRequests == { <<0, <<1, 1>>>>, <<2, <<4, 0>>>>, <<3, <<0, 5>>>> }

StuckRequest ==
    /\ Len(generation_queue) < MaxQueue
    /\ \E r \in StuckRequests : request_chunk(r[2], r[1])
    /\ UNCHANGED aux

StuckProcess ==
    /\ process_queued_chunks({})
    /\ UNCHANGED aux

StuckDone(i) ==
    /\ i \in 1 .. Len(pool_running)
    /\ pool_running[i][2] \notin stuck
    /\ generate_chunk_done(i)
    /\ UNCHANGED aux

NextStuck == StuckRequest \/ StuckProcess \/ \E i \in 1 .. max_workers : StuckDone(i)

SpecStuck ==
    /\ InitStuck
    /\ [][NextStuck]_vars
    /\ WF_vars(StuckProcess)
    /\ \A i \in 1 .. max_workers : WF_vars(StuckDone(i))

----------------------------------------------------------------------------
(* The game loop of main.py (WorldAlpha.update): the player moves between  *)
(* ticks; a tick requests the positions within VIEW_DISTANCE of the        *)
(* player's chunk with their distance as priority, processes the queues    *)
(* and evicts around the player's chunk.  The distance is compared by its  *)
(* square, which orders positions as math.sqrt of it does.                 *)

DistanceSq(chunk_pos, c) ==
    (chunk_pos[1] - c[1]) * (chunk_pos[1] - c[1])
  + (chunk_pos[2] - c[2]) * (chunk_pos[2] - c[2])

Chebyshev(chunk_pos, c) ==
    Max2(Abs(chunk_pos[1] - c[1]), Abs(chunk_pos[2] - c[2]))

MovePlayer ==
    /\ \E v \in Viewpoints \ {viewpoint} : viewpoint' = v
    /\ last' = Op("move", <<>>, 0)
    /\ UNCHANGED <<chunks, generation_queue, ready_meshes, currently_generating,
                   pool_pending, pool_running, entities>>
    /\ UNCHANGED aux

TickRequest ==
    /\ Len(generation_queue) < MaxQueue
    /\ \E p \in TickPositions :
        /\ DistanceSq(p, viewpoint) <= VIEW_DISTANCE * VIEW_DISTANCE
        /\ request_chunk(p, DistanceSq(p, viewpoint))
    /\ UNCHANGED aux

TickEvict ==
    /\ remove_distant_chunks(viewpoint[1], viewpoint[2], VIEW_DISTANCE)
    /\ UNCHANGED aux

NextTick ==
    MovePlayer \/ TickRequest \/ Process \/ WorkerDone \/ WorkerFailed \/ TickEvict

SpecTick == Init /\ [][NextTick]_vars

----------------------------------------------------------------------------
(* ChunkManager.get_stats and the counters it reports.  The clock counts    *)
(* half seconds.                                                            *)

\* one second
StatsPeriod == 2

\* the durations a job can record at line 143
Durations == { 1, 2 }

RECURSIVE Sum(_)
Sum(seq) == IF seq = <<>> THEN 0 ELSE Head(seq) + Sum(Tail(seq))

\* np.mean as the fraction <<sum, count>>, 0 for no times (line 43)
Mean(times) == IF times = <<>> THEN <<0, 1>> ELSE <<Sum(times), Len(times)>>

\* a test that always lets the report through
StatsDue_Always(current_time, last_update) == TRUE

\* the test of line 37
StatsDue(current_time, last_update) == current_time - last_update >= StatsPeriod

get_stats ==
    /\ IF StatsDue(stats.now, stats.last_stats_update)
       THEN /\ stats' = [stats EXCEPT
                  !.report = [chunks_generated |-> stats.chunks_generated,
                              chunks_in_generation |-> Cardinality(currently_generating),
                              chunks_pending |-> Len(generation_queue),
                              chunks_loaded |-> Cardinality(DOMAIN chunks),
                              avg_generation_time |-> Mean(stats.generation_times)],
                  !.last_stats_update = stats.now,
                  !.generation_times = <<>>,
                  !.reported_since = stats.since,
                  !.since = 0,
                  !.report_time = stats.now]
            /\ last' = Op("stats", <<>>, 1)
       ELSE /\ stats' = [stats EXCEPT !.report = <<>>]
            /\ last' = Op("stats", <<>>, 0)
    /\ UNCHANGED <<chunks, generation_queue, ready_meshes, currently_generating,
                   pool_pending, pool_running, entities, viewpoint>>

GetStats ==
    /\ get_stats
    /\ UNCHANGED auxButStats

\* time passes
Tick ==
    /\ stats.now < MaxTime
    /\ stats' = [stats EXCEPT !.now = @ + 1]
    /\ last' = Op("tick", <<>>, 0)
    /\ UNCHANGED <<chunks, generation_queue, ready_meshes, currently_generating,
                   pool_pending, pool_running, entities, viewpoint>>
    /\ UNCHANGED auxButStats

\* line 69: every installation is counted
StatsProcess ==
    /\ \E bad \in SUBSET RaisingPositions : process_queued_chunks(bad)
    /\ LET n == Cardinality((DOMAIN chunks') \ (DOMAIN chunks))
       IN  stats' = [stats EXCEPT !.chunks_generated = @ + n, !.since = @ + n]
    /\ UNCHANGED auxButStats

\* lines 143-144: the job records how long it ran
StatsDone ==
    /\ \E i \in 1 .. max_workers : generate_chunk_done(i)
    /\ \E generation_time \in Durations :
          stats' = [stats EXCEPT !.generation_times = Append(@, generation_time)]
    /\ UNCHANGED auxButStats

NextStats ==
    TickRequest \/ StatsProcess \/ StatsDone \/ WorkerFailed \/ Tick \/ GetStats

SpecStats == Init /\ [][NextStats]_vars

\* the game loop of a program that calls cleanup once and goes on
Cleanup ==
    /\ ~shutdown
    /\ cleanup
    /\ UNCHANGED auxButShutdown

NextCleanup == NextTick \/ Cleanup

SpecCleanup == Init /\ [][NextCleanup]_vars

----------------------------------------------------------------------------
(* Terrain generation: the heightmaps of ChunkManager._generate_heightmap   *)
(* and TerrainChunk._fast_generate_heightmap and the mesh built from them.  *)
(* The noise and the biome parameters are functions of the world            *)
(* coordinates; the model takes them from a few integer-valued fields, one  *)
(* per world.  Heights of the strided generator are kept as 16 times their  *)
(* value, so that the quarter steps of the interpolation stay integers.     *)

Worlds == { 1, 2 }

TerrainChunks == { <<0, 0>>, <<-1, 0>>, <<1, -2>> }

Builders == { "manager", "chunk" }

\* snoise2(world_x * 0.02, world_z * 0.02, octaves=4)
BaseNoise(world, world_x, world_z) ==
    (world_x * world_x + 3 * world_z * world + world_x * world_z) % 7

\* snoise2(world_x * 0.1, world_z * 0.1, octaves=2)
DetailNoise(world, world_x, world_z) ==
    (world_x + world * world_z * world_z) % 5

\* biome_manager.get_blended_params(world_x, world_z): base height, height
\* variation, ten times the roughness, and the color
TerrainParams(world, world_x, world_z) ==
    LET k == (world_x + 2 * world_z + world * world_x * world_z) % 4
    IN  CASE k = 0 -> [base_height |-> 64, height_variation |-> 15,
                       roughness |-> 3, color |-> <<4, 8, 3>>]
          [] k = 1 -> [base_height |-> 70, height_variation |-> 25,
                       roughness |-> 4, color |-> <<2, 4, 2>>]
          [] k = 2 -> [base_height |-> 120, height_variation |-> 60,
                       roughness |-> 6, color |-> <<7, 7, 7>>]
          [] OTHER -> [base_height |-> 68, height_variation |-> 10,
                       roughness |-> 2, color |-> <<6, 8, 3>>]

\* ChunkManager._generate_heightmap: heightmap[z][x], x and z in 0 .. N
generate_heightmap(chunk_size, chunk_x, chunk_z, world) ==
    LET world_x_start == chunk_x * chunk_size
        world_z_start == chunk_z * chunk_size
    IN  [z \in 0 .. chunk_size |->
          [x \in 0 .. chunk_size |->
             LET world_x == world_x_start + x
                 world_z == world_z_start + z
                 params == TerrainParams(world, world_x, world_z)
             IN  BaseNoise(world, world_x, world_z) * params.height_variation
                   + params.base_height]]

base_resolution == 4

\* lines 108-113: the coarse sample at a world coordinate, ten times its
\* value (the roughness is kept in tenths)
CoarseSample(world, world_x, world_z) ==
    LET params == TerrainParams(world, world_x, world_z)
    IN  10 * BaseNoise(world, world_x, world_z) * params.height_variation
          + DetailNoise(world, world_x, world_z) * params.roughness
          + 10 * params.base_height

\* an interpolation factor taken one vertex further
Fraction_Shifted(x) == (x + 1) % base_resolution

\* lines 125-126: the interpolation factor, in quarters
Fraction(x) == x % base_resolution

Min2(a, b) == IF a < b THEN a ELSE b

\* lines 121-122: the clamped index of the next coarse sample
NextIndex(base_i, base_samples) == Min2(base_i + 1, base_samples - 1)

\* lerp(a, b, f / 4), four times its value
Lerp4(a, b, f) == 4 * a + (b - a) * f

\* TerrainChunk._fast_generate_heightmap
fast_generate_heightmap(chunk_size, chunk_x, chunk_z, world) ==
    LET world_x_start == chunk_x * chunk_size
        world_z_start == chunk_z * chunk_size
        chunk_size_with_overflow == chunk_size + 1
        base_samples == (chunk_size_with_overflow \div base_resolution) + 1
        base_heightmap ==
            [z \in 0 .. base_samples - 1 |->
               [x \in 0 .. base_samples - 1 |->
                  CoarseSample(world, world_x_start + x * base_resolution,
                                      world_z_start + z * base_resolution)]]
    IN  [z \in 0 .. chunk_size_with_overflow - 1 |->
          [x \in 0 .. chunk_size_with_overflow - 1 |->
             LET base_x == x \div base_resolution
                 base_z == z \div base_resolution
                 next_x == NextIndex(base_x, base_samples)
                 next_z == NextIndex(base_z, base_samples)
                 fx == Fraction(x)
                 fz == Fraction(z)
                 h00 == base_heightmap[base_z][base_x]
                 h10 == base_heightmap[base_z][next_x]
                 h01 == base_heightmap[next_z][base_x]
                 h11 == base_heightmap[next_z][next_x]
                 h0 == Lerp4(h00, h10, fx)
                 h1 == Lerp4(h01, h11, fx)
             IN  Lerp4(h0, h1, fz)]]

\* the heightmap of a builder
Heightmap(builder, chunk_size, chunk_x, chunk_z, world) ==
    IF builder = "manager"
    THEN generate_heightmap(chunk_size, chunk_x, chunk_z, world)
    ELSE fast_generate_heightmap(chunk_size, chunk_x, chunk_z, world)

\* two triangles for every vertex
QuadEmitted_EveryVertex(x, z, chunk_size) == TRUE

\* the test of chunk_manager.py line 133 and chunk.py line 81
QuadEmitted(x, z, chunk_size) == x < chunk_size /\ z < chunk_size

\* the second triangle turned the other way
TrianglePattern_Flipped(base_idx, vertices_row) ==
    << base_idx, base_idx + 1, base_idx + vertices_row,
       base_idx + 1, base_idx + vertices_row, base_idx + vertices_row + 1 >>

\* chunk_manager.py lines 135-138 and chunk.py lines 62-65, 83
TrianglePattern(base_idx, vertices_row) ==
    << base_idx, base_idx + 1, base_idx + vertices_row,
       base_idx + 1, base_idx + vertices_row + 1, base_idx + vertices_row >>

\* the two loops of chunk_manager.py lines 122-138 and chunk.py lines 68-83,
\* from the vertex number i on (z outer, x inner)
RECURSIVE MeshLoop(_, _, _, _, _, _, _)
MeshLoop(chunk_size, chunk_x, chunk_z, world, heightmap, i, mesh) ==
    LET vertices_row == chunk_size + 1
        z == i \div vertices_row
        x == i % vertices_row
        world_x == chunk_x * chunk_size + x
        world_z == chunk_z * chunk_size + z
    IN  IF i >= vertices_row * vertices_row THEN mesh
        ELSE MeshLoop(chunk_size, chunk_x, chunk_z, world, heightmap, i + 1,
               [vertices |-> Append(mesh.vertices, <<x, heightmap[z][x], z>>),
                colors |-> Append(mesh.colors,
                                  TerrainParams(world, world_x, world_z).color),
                triangles |->
                    IF QuadEmitted(x, z, chunk_size)
                    THEN mesh.triangles
                           \o TrianglePattern(z * vertices_row + x, vertices_row)
                    ELSE mesh.triangles])

\* ChunkManager._generate_chunk lines 116-138 and
\* TerrainChunk._generate_chunk_mesh
generate_chunk_mesh(chunk_size, chunk_x, chunk_z, world, heightmap) ==
    MeshLoop(chunk_size, chunk_x, chunk_z, world, heightmap, 0,
             [vertices |-> <<>>, colors |-> <<>>, triangles |-> <<>>])

InitTerrain ==
    /\ InitScheduler
    /\ InitHistory
    /\ stuck = {}
    /\ \E n \in 1 .. MaxChunkSize, c \in TerrainChunks, w \in Worlds,
          b \in Builders :
          calc = [stage |-> "input", chunk_size |-> n, chunk |-> c,
                  world |-> w, builder |-> b]

\* the heightmap of the chunk and of its neighbours to the east and south
GenerateHeightmap ==
    /\ calc.stage = "input"
    /\ calc' = [stage |-> "heightmap", chunk_size |-> calc.chunk_size,
                chunk |-> calc.chunk, world |-> calc.world,
                builder |-> calc.builder,
                heightmap |-> Heightmap(calc.builder, calc.chunk_size,
                                        calc.chunk[1], calc.chunk[2], calc.world),
                east |-> Heightmap(calc.builder, calc.chunk_size,
                                   calc.chunk[1] + 1, calc.chunk[2], calc.world),
                south |-> Heightmap(calc.builder, calc.chunk_size,
                                    calc.chunk[1], calc.chunk[2] + 1, calc.world)]
    /\ UNCHANGED <<chunks, generation_queue, ready_meshes, currently_generating,
                   pool_pending, pool_running, entities, viewpoint, last>>
    /\ UNCHANGED auxButCalc

GenerateMesh ==
    /\ calc.stage = "heightmap"
    /\ calc' = [stage |-> "mesh", chunk_size |-> calc.chunk_size,
                chunk |-> calc.chunk, world |-> calc.world,
                builder |-> calc.builder, heightmap |-> calc.heightmap,
                east |-> calc.east, south |-> calc.south,
                mesh |-> generate_chunk_mesh(calc.chunk_size, calc.chunk[1],
                                             calc.chunk[2], calc.world,
                                             calc.heightmap)]
    /\ UNCHANGED <<chunks, generation_queue, ready_meshes, currently_generating,
                   pool_pending, pool_running, entities, viewpoint, last>>
    /\ UNCHANGED auxButCalc

NextTerrain == GenerateHeightmap \/ GenerateMesh

SpecTerrain == InitTerrain /\ [][NextTerrain]_vars

----------------------------------------------------------------------------
(* Biome sampling: BiomeManager.get_biome_at and get_blended_params.  The   *)
(* three climate fields are functions of the seed and the coordinates with  *)
(* values in hundredths, constant on cells wider than the transition ring.  *)
(* Parameters are kept as Scale times their value (roughness and color      *)
(* channels in tenths), so that the up to three blends by a factor in       *)
(* fortieths are exact; the distance to a biome is rounded down to whole    *)
(* blocks.                                                                  *)

Seeds == { 42, 43 }

\* the coordinates sampled
SamplePoints == { <<65, -5>>, <<123, 45>>, <<30, 30>> }

\* the main thread (TerrainChunk) and a pool worker (_generate_chunk)
Threads == { "main", "worker" }

\* the keys of biome_params in insertion order
BiomeTypes == << "MEADOWS", "BLACK_FOREST", "MOUNTAINS", "PLAINS" >>

Scale == 64000

\* _setup_biome_params
BiomeTable ==
    [ MEADOWS |->
        [base_height |-> 64 * Scale, height_variation |-> 15 * Scale,
         roughness |-> 3 * Scale,
         color |-> <<4 * Scale, 8 * Scale, 3 * Scale, 10 * Scale>>,
         temperature_range |-> <<30, 70>>, rainfall_range |-> <<30, 60>>],
      BLACK_FOREST |->
        [base_height |-> 70 * Scale, height_variation |-> 25 * Scale,
         roughness |-> 4 * Scale,
         color |-> <<2 * Scale, 4 * Scale, 2 * Scale, 10 * Scale>>,
         temperature_range |-> <<20, 50>>, rainfall_range |-> <<60, 100>>],
      MOUNTAINS |->
        [base_height |-> 120 * Scale, height_variation |-> 60 * Scale,
         roughness |-> 6 * Scale,
         color |-> <<7 * Scale, 7 * Scale, 7 * Scale, 10 * Scale>>,
         temperature_range |-> <<0, 30>>, rainfall_range |-> <<0, 100>>],
      PLAINS |->
        [base_height |-> 68 * Scale, height_variation |-> 10 * Scale,
         roughness |-> 2 * Scale,
         color |-> <<6 * Scale, 8 * Scale, 3 * Scale, 10 * Scale>>,
         temperature_range |-> <<50, 100>>, rainfall_range |-> <<20, 50>>] ]

\* _setup_transition_params; blend_factor 0.5 is the 2 of BlendOf
transition_width == 20

\* _get_temperature, in hundredths
get_temperature(seed, x, z) ==
    (37 * (x \div 60) + 11 * (z \div 60) + 3 * seed) % 101

\* _get_moisture, in hundredths
get_moisture(seed, x, z) ==
    (23 * (x \div 60) + 41 * (z \div 60) + 7 * (seed + 1)) % 101

\* _get_base_elevation, in hundredths
get_base_elevation(seed, x, z) ==
    (5 * (x \div 120) + 3 * (z \div 120) + seed + 2) % 101

\* the values a climate field is scored at, in hundredths: the range of the
\* noise and a margin on either side
ScoreValues == -20 .. 120

\* _calculate_range_score without the branch of lines 156-157
calculate_range_score_NoUpper(value, min_val, max_val) ==
    IF value < min_val THEN 100 - (min_val - value)
    ELSE 100

\* _calculate_range_score, in hundredths
calculate_range_score(value, min_val, max_val) ==
    IF value < min_val THEN 100 - (min_val - value)
    ELSE IF value > max_val THEN 100 - (value - max_val)
    ELSE 100

\* line 123: the combined score of a biome, in thousandths
BiomeScore(table, seed, biome_type, x, z) ==
    LET params == table[biome_type]
        temp_score == calculate_range_score(get_temperature(seed, x, z),
                          params.temperature_range[1],
                          params.temperature_range[2])
        rain_score == calculate_range_score(get_moisture(seed, x, z),
                          params.rainfall_range[1],
                          params.rainfall_range[2])
    IN  temp_score * 4 + rain_score * 3 + get_base_elevation(seed, x, z) * 3

\* line 126: max() keeps the first of the highest scores
FirstHighest(scores) ==
    CHOOSE i \in 1 .. Len(scores) :
        /\ \A j \in 1 .. Len(scores) : scores[j] <= scores[i]
        /\ \A j \in 1 .. i - 1 : scores[j] < scores[i]

\* get_biome_at
get_biome_at(table, seed, x, z) ==
    BiomeTypes[FirstHighest(<< BiomeScore(table, seed, BiomeTypes[1], x, z),
                               BiomeScore(table, seed, BiomeTypes[2], x, z),
                               BiomeScore(table, seed, BiomeTypes[3], x, z),
                               BiomeScore(table, seed, BiomeTypes[4], x, z) >>)]

\* lines 172-175: the eight ring offsets in loop order
RingOffsets ==
    << <<-transition_width, -transition_width>>, <<-transition_width, 0>>,
       <<-transition_width, transition_width>>, <<0, -transition_width>>,
       <<0, transition_width>>, <<transition_width, -transition_width>>,
       <<transition_width, 0>>, <<transition_width, transition_width>> >>

\* lines 171-178: the keys of nearby_biomes in insertion order
RECURSIVE NearbyBiomes(_, _, _, _, _, _, _)
NearbyBiomes(table, seed, x, z, primary_biome, i, found) ==
    IF i > Len(RingOffsets) THEN found
    ELSE LET check_biome == get_biome_at(table, seed, x + RingOffsets[i][1],
                                         z + RingOffsets[i][2])
         IN  NearbyBiomes(table, seed, x, z, primary_biome, i + 1,
                 IF check_biome # primary_biome
                    /\ \A k \in 1 .. Len(found) : found[k] # check_biome
                 THEN Append(found, check_biome)
                 ELSE found)

\* range(-transition_width, transition_width + 1, 5)
DistanceOffsets == { 5 * k : k \in -4 .. 4 }

\* min_distance when the biome is nowhere on the grid (float('inf'))
Infinity == 1000

\* the square root rounded down
Isqrt(n) == CHOOSE r \in 0 .. 30 : r * r <= n /\ n < (r + 1) * (r + 1)

\* _get_biome_distance
get_biome_distance(table, seed, x, z, target_biome) ==
    LET squares == { dx * dx + dz * dz : <<dx, dz>> \in
                       { o \in DistanceOffsets \X DistanceOffsets :
                           get_biome_at(table, seed, x + o[1], z + o[2])
                             = target_biome } }
    IN  IF squares = {} THEN Infinity
        ELSE Isqrt(CHOOSE m \in squares : \A n \in squares : m <= n)

\* line 194: max(0, 1 - distance / transition_width) * blend_factor, in
\* fortieths
BlendOf(distance) == Max2(0, transition_width - distance)

\* _lerp with the factor in fortieths
lerp(a, b, t) == a + ((b - a) * t) \div (2 * transition_width)

\* _blend_colors
blend_colors(color1, color2, factor) ==
    << lerp(color1[1], color2[1], factor), lerp(color1[2], color2[2], factor),
       lerp(color1[3], color2[3], factor), 10 * Scale >>

\* lines 196-218: one blend of the four fields
BlendInto(blended_params, params, blend) ==
    [blended_params EXCEPT
        !.base_height = lerp(@, params.base_height, blend),
        !.height_variation = lerp(@, params.height_variation, blend),
        !.roughness = lerp(@, params.roughness, blend),
        !.color = blend_colors(@, params.color, blend)]

\* lines 192-218: the blends with the nearby biomes from the i-th on
RECURSIVE BlendLoop(_, _, _, _, _, _, _)
BlendLoop(table, seed, x, z, nearby_biomes, i, blended_params) ==
    IF i > Len(nearby_biomes) THEN blended_params
    ELSE BlendLoop(table, seed, x, z, nearby_biomes, i + 1,
             BlendInto(blended_params, table[nearby_biomes[i]],
                 BlendOf(get_biome_distance(table, seed, x, z,
                                            nearby_biomes[i]))))

\* lines 185-190: a new BiomeParams with the four fields of the primary
\* biome and the defaults of the dataclass
NewBiomeParams(primary_params) ==
    [base_height |-> primary_params.base_height,
     height_variation |-> primary_params.height_variation,
     roughness |-> primary_params.roughness,
     color |-> primary_params.color,
     temperature_range |-> <<0, 100>>, rainfall_range |-> <<0, 100>>]

\* the blend written into the entry of the primary biome
StoreBlended_InPlace(table, primary_biome, blended_params) ==
    [table EXCEPT ![primary_biome] =
        [@ EXCEPT !.base_height = blended_params.base_height,
                  !.height_variation = blended_params.height_variation,
                  !.roughness = blended_params.roughness,
                  !.color = blended_params.color]]

\* lines 185-220: the blend is written to the new record, biome_params is
\* not assigned
StoreBlended(table, primary_biome, blended_params) == table

\* get_blended_params from line 181 on: the value returned and biome_params
\* after the call
BlendedParams(table, seed, x, z, primary_biome, nearby_biomes) ==
    IF nearby_biomes = <<>>
    THEN [value |-> table[primary_biome], table |-> table]
    ELSE LET blended_params ==
                 BlendLoop(table, seed, x, z, nearby_biomes, 1,
                           NewBiomeParams(table[primary_biome]))
         IN  [value |-> blended_params,
              table |-> StoreBlended(table, primary_biome, blended_params)]

\* get_blended_params as one call
get_blended_params(table, seed, x, z) ==
    LET primary_biome == get_biome_at(table, seed, x, z)
    IN  BlendedParams(table, seed, x, z, primary_biome,
            NearbyBiomes(table, seed, x, z, primary_biome, 1, <<>>))

Idle == [busy |-> FALSE, point |-> <<0, 0>>, primary_biome |-> "MEADOWS",
         nearby_biomes |-> <<>>]

InitBiome ==
    /\ InitScheduler
    /\ InitHistory
    /\ stuck = {}
    /\ \E seed \in Seeds :
          calc = [stage |-> "biome", seed |-> seed, biome_params |-> BiomeTable,
                  running |-> [t \in Threads |-> Idle],
                  results |-> {},
                  seen |-> [p \in SamplePoints |-> {}]]

\* a thread enters get_blended_params(x, z) and runs lines 167-178
BeginSample ==
    \E t \in Threads, p \in SamplePoints :
        /\ ~calc.running[t].busy
        /\ LET primary_biome ==
                   get_biome_at(calc.biome_params, calc.seed, p[1], p[2])
           IN  calc' = [calc EXCEPT !.running[t] =
                   [busy |-> TRUE, point |-> p,
                    primary_biome |-> primary_biome,
                    nearby_biomes |->
                        NearbyBiomes(calc.biome_params, calc.seed, p[1], p[2],
                                     primary_biome, 1, <<>>)]]
        /\ UNCHANGED <<chunks, generation_queue, ready_meshes,
                       currently_generating, pool_pending, pool_running,
                       entities, viewpoint, last>>
        /\ UNCHANGED auxButCalc

\* the call of a thread returns: the value is recorded and the thread is
\* idle again
Returned(t, call, out) ==
    [calc EXCEPT !.running[t] = Idle,
                 !.biome_params = out.table,
                 !.results = @ \cup { <<call.point, out.value>> },
                 !.seen[call.point] = @ \cup {t}]

\* the thread runs lines 181-220 and returns
EndSample ==
    \E t \in Threads :
        /\ calc.running[t].busy
        /\ calc' = Returned(t, calc.running[t],
                       BlendedParams(calc.biome_params, calc.seed,
                                     calc.running[t].point[1],
                                     calc.running[t].point[2],
                                     calc.running[t].primary_biome,
                                     calc.running[t].nearby_biomes))
        /\ UNCHANGED <<chunks, generation_queue, ready_meshes,
                       currently_generating, pool_pending, pool_running,
                       entities, viewpoint, last>>
        /\ UNCHANGED auxButCalc

NextBiome == BeginSample \/ EndSample

SpecBiome == InitBiome /\ [][NextBiome]_vars

----------------------------------------------------------------------------
(* The states of a position (spec section 3) *)

Queued(p) == p \in QueuePositions(generation_queue)

Generating(p) == p \in currently_generating

Loaded(p) == p \in DOMAIN chunks

\* jobs of p in the pool plus results of p waiting in the ready queue
OutstandingIn(pending, running, ready, p) ==
    CountPos(pending, p) + CountPos(running, p) + CountPos(ready, p)

Outstanding(p) == OutstandingIn(pool_pending, pool_running, ready_meshes, p)

\* the priority at which dispatch pops position p from queue q: that of
\* its first entry (p has an entry in q)
DispatchPriority(q, p) ==
    q[CHOOSE i \in 1 .. Len(q) :
          /\ q[i][2] = p
          /\ \A j \in 1 .. i - 1 : q[j][2] # p][1]

----------------------------------------------------------------------------
(* C1: in every reachable state every position is in exactly one of        *)
(* absent, Queued, Generating, Loaded: no two of Queued, Generating and    *)
(* Loaded hold for the same position.                                      *)
C1_ExactlyOneState ==
    \A p \in Positions :
        /\ ~(Queued(p) /\ Generating(p))
        /\ ~(Queued(p) /\ Loaded(p))
        /\ ~(Generating(p) /\ Loaded(p))

(* C2: however often a position is requested, at most one generation job   *)
(* (a job in the pool or its result in the ready queue) exists for it at a  *)
(* time, and while it exists the position is in flight and not Loaded, so   *)
(* dispatch never submits a job for a position in flight or Loaded.         *)
C2_OneJobPerPosition ==
    \A p \in Positions :
        /\ Outstanding(p) <= 1
        /\ Outstanding(p) = 1 => Generating(p) /\ ~Loaded(p)

\* a position with a job in the pool that was requested again: its
\* duplicate entry waits in the generation queue
C2_Witness ==
    \E p \in Positions :
        /\ CountPos(pool_pending, p) + CountPos(pool_running, p) = 1
        /\ Generating(p)
        /\ Queued(p)

(* C3: the generation queue holds at most one entry per position.          *)
C3_OneEntryPerPosition ==
    \A p \in Positions : CountPos(generation_queue, p) <= 1

(* C4: the in-flight set never holds more than max_concurrent_gen          *)
(* positions.                                                              *)
C4_InFlightBounded ==
    Cardinality(currently_generating) <= max_concurrent_gen

\* dispatch stopped at the cap with requests still waiting
C4_Witness ==
    /\ last.op = "process"
    /\ Cardinality(currently_generating) = max_concurrent_gen
    /\ generation_queue # <<>>

(* C5: one call of process_queued_chunks removes at most                    *)
(* max_mesh_per_frame results from the ready queue and installs at most     *)
(* max_mesh_per_frame chunks; the other results stay in the ready queue.    *)
C5_DrainBounded ==
    [][ /\ Len(ready_meshes') >= Len(ready_meshes) - max_mesh_per_frame
        /\ Cardinality(DOMAIN chunks' \ DOMAIN chunks) <= max_mesh_per_frame
        /\ last'.op = "process" =>
              /\ last'.n <= max_mesh_per_frame
              /\ Len(ready_meshes') = Len(ready_meshes) - last'.n ]_vars

\* a call that drained max_mesh_per_frame results and left a surplus
C5_Witness ==
    /\ last.op = "process"
    /\ last.n = max_mesh_per_frame
    /\ ready_meshes # <<>>
    /\ Cardinality(DOMAIN chunks) >= max_mesh_per_frame

(* C6: a position is loaded at most once: no step replaces the handle of a  *)
(* position that is in the chunk store, and every live entity is the        *)
(* handle of a Loaded position (none was overwritten and leaked).           *)
C6_LoadedAtMostOnce ==
    [][ /\ \A p \in DOMAIN chunks \cap DOMAIN chunks' : chunks'[p] = chunks[p]
        /\ \A e \in entities' : \E p \in DOMAIN chunks' : chunks'[p] = e ]_vars

\* a call that installed a chunk while a Loaded position still has an
\* entry in the generation queue
C6_Witness ==
    /\ last.op = "process"
    /\ last.n >= 1
    /\ \E p \in Positions : Loaded(p) /\ Queued(p)

(* C7: for every result that drain removes from the ready queue, the        *)
(* in-flight marker of its position is cleared when the call returns,       *)
(* whether the result was installed, skipped or its installation raised.    *)
C7_PoppedResultClearsMarker ==
    [][ \A p \in Positions :
            CountPos(ready_meshes', p) < CountPos(ready_meshes, p)
                => p \notin currently_generating' ]_vars

(* C8: when a generation job raises, its position leaves the in-flight set, *)
(* no result for it is delivered, the worker goes on with the next job of   *)
(* the pool, and the position is admitted again by request_chunk and by     *)
(* dispatch.                                                                *)
C8_FailedJobFreesPosition ==
    [][ last'.op = "failed" =>
          LET p == last'.args[1]
          IN  /\ p \notin currently_generating'
              /\ ready_meshes' = ready_meshes
              /\ OutstandingIn(pool_pending', pool_running', ready_meshes', p) = 0
              /\ Len(pool_pending) > 0 =>
                    /\ Len(pool_running') = Len(pool_running)
                    /\ Len(pool_pending') = Len(pool_pending) - 1
              /\ RequestAdmitted(chunks', currently_generating', p)
              /\ DispatchAdmitted(chunks', currently_generating', p) ]_vars

\* a job failed while other jobs waited: the pool goes on with them, and
\* the failed position has an entry in the generation queue, which a later
\* dispatch submits again
C8_Witness ==
    /\ last.op = "failed"
    /\ last.args[1] \notin currently_generating
    /\ Len(pool_running) = max_workers
    /\ Queued(last.args[1])

(* C9: a result whose position is outside the retained range of the         *)
(* current viewpoint (Chebyshev distance greater than VIEW_DISTANCE plus    *)
(* border) when it is drained is not installed into the chunk store.        *)
C9_StaleResultDiscarded ==
    [][ \A p \in DOMAIN chunks' \ DOMAIN chunks :
            Chebyshev(p, viewpoint) <= VIEW_DISTANCE + border ]_vars

C11_EvictFrame ==
    [][ last'.op = "evict" =>
          /\ \A p \in DOMAIN chunks :
                Chebyshev(p, <<last'.args[1], last'.args[2]>>)
                        <= last'.args[3] + border
                    => p \in DOMAIN chunks' /\ chunks'[p] = chunks[p]
          /\ DOMAIN chunks' \subseteq DOMAIN chunks
          /\ generation_queue' = generation_queue
          /\ currently_generating' = currently_generating
          /\ ready_meshes' = ready_meshes
          /\ pool_pending' = pool_pending
          /\ pool_running' = pool_running ]_vars

\* an eviction that removed a chunk, kept a chunk at the very edge of the
\* retained range and left an out-of-range position Queued or Generating
C11_Witness ==
    /\ last.op = "evict"
    /\ last.n >= 1
    /\ \E p \in DOMAIN chunks :
          Chebyshev(p, <<last.args[1], last.args[2]>>) = last.args[3] + border
    /\ \E p \in Positions :
          /\ Queued(p) \/ Generating(p)
          /\ Chebyshev(p, <<last.args[1], last.args[2]>>) > last.args[3] + border

(* C12: dispatch is priority-ordered: a job that a process_queued_chunks    *)
(* call submits to the pool has a priority value no greater than that of    *)
(* any entry the call leaves waiting in the generation queue.               *)
C12_DispatchPriorityOrdered ==
    [][ last'.op = "process" =>
          \A i \in 1 .. Len(pool_running' \o pool_pending') :
             LET job == (pool_running' \o pool_pending')[i]
             IN  job[2] \in currently_generating' \ currently_generating
                   => \A k \in 1 .. Len(generation_queue') :
                         job[1] <= generation_queue'[k][1] ]_vars

\* a call has submitted jobs and left strictly less urgent entries waiting,
\* among them entries that were requested before the submitted ones
C12_Witness ==
    /\ last.op = "process"
    /\ last.args[2] >= 2
    /\ \E i \in 1 .. Len(pool_running), k \in 1 .. Len(generation_queue) :
          /\ pool_running[i][1] < generation_queue[k][1]
          /\ \E a, b \in 1 .. Len(SetupSeq) :
                /\ a < b
                /\ SetupSeq[a] = generation_queue[k][2]
                /\ SetupSeq[b] = pool_running[i][2]

(* C13: when a position is requested a second time with a more urgent       *)
(* priority while it is Queued, the priority that orders its dispatch (the  *)
(* least priority of its entries in the generation queue) stays that of the *)
(* first request: the later request does not re-prioritise.                 *)
C13_FirstPriorityOrders ==
    [][ last'.op = "request" =>
          \A p \in Positions :
              CountPos(generation_queue, p) >= 1
                  => DispatchPriority(generation_queue', p)
                         = DispatchPriority(generation_queue, p) ]_vars

(* C14 as claimed: results are applied in completion order: no call       *)
(* installs a result and leaves waiting a result that was delivered before  *)
(* it.                                                                      *)
C14_CompletionOrder == delivery.overtaken = {}

(* C14: results are applied in the order of their (priority, position)      *)
(* entries, whatever the order of completion: the ready queue is sorted by  *)
(* EntryLess and a process_queued_chunks call that pops n results removes   *)
(* its first n entries.                                                     *)
C14_ReadyPriorityOrder ==
    [][ last'.op = "process" =>
          /\ \A i, j \in 1 .. Len(ready_meshes) :
                i < j => ~EntryLess(ready_meshes[j], ready_meshes[i])
          /\ last'.n <= Len(ready_meshes)
          /\ ready_meshes' = SubSeq(ready_meshes, last'.n + 1, Len(ready_meshes)) ]_vars

\* a call has installed a result and left waiting one delivered before it
C14_Witness ==
    /\ last.op = "process"
    /\ last.n >= 1
    /\ delivery.overtaken # {}
    /\ delivery.overtaken \subseteq QueuePositions(ready_meshes)

(* C15: no request is lost: when process_queued_chunks keeps being called  *)
(* and every running job completes, a Queued position is eventually        *)
(* Loaded.                                                                  *)
C15_NoRequestLost ==
    \A p \in Positions : Queued(p) ~> Loaded(p)

(* C16: after k <= max_mesh_per_frame, max_concurrent_gen requests of      *)
(* distinct idle positions, one dispatching call, the completion of all k   *)
(* jobs and one draining call, the k positions are Loaded and the chunk     *)
(* store has grown by exactly k.                                            *)
C16_CycleLoadsAll ==
    phase[1] = "done" =>
        /\ \A p \in phase[2] : Loaded(p)
        /\ Cardinality(DOMAIN chunks) = phase[3] + Cardinality(phase[2])

(* C17: a stuck job stalls its own slot only: with fewer than             *)
(* max_concurrent_gen stuck jobs, a Queued position whose job is not stuck  *)
(* is eventually Loaded.                                                    *)
C17_StuckStallsOwnSlot ==
    \A p \in Positions : (Queued(p) /\ p \notin stuck) ~> Loaded(p)

(* C18: a worker thread writes none of the chunk store, the generation      *)
(* queue and the in-flight set: a worker step changes the ready queue and   *)
(* the pool only.                                                           *)
C18_WorkerWritesReadyQueueOnly ==
    [][ last'.op \in {"generated", "failed"} =>
          /\ chunks' = chunks
          /\ generation_queue' = generation_queue
          /\ currently_generating' = currently_generating ]_vars

(* C20: request_chunk on a position that is Generating or Loaded changes    *)
(* nothing: a request step changes the generation queue only, and the       *)
(* entry it adds is for a position that is neither Generating nor Loaded.   *)
C20_RequestFrame ==
    [][ last'.op = "request" =>
          /\ \A p \in Positions :
                Generating(p) \/ Loaded(p)
                    => CountPos(generation_queue', p) = CountPos(generation_queue, p)
          /\ Len(generation_queue') = Len(generation_queue) + last'.n
          /\ last'.n = 0 => generation_queue' = generation_queue
          /\ currently_generating' = currently_generating
          /\ ready_meshes' = ready_meshes
          /\ chunks' = chunks
          /\ pool_pending' = pool_pending
          /\ pool_running' = pool_running ]_vars

\* a request that was ignored, with a position Generating and one Loaded
C20_Witness ==
    /\ last.op = "request"
    /\ last.n = 0
    /\ \E p \in Positions : Generating(p)
    /\ \E p \in Positions : Loaded(p)

(* C19: process_queued_chunks never waits: it can run in every state,      *)
(* whatever the queues hold, and one call runs at most max_mesh_per_frame  *)
(* iterations of the drain loop and submits at most max_concurrent_gen     *)
(* jobs.                                                                   *)
C19_ProcessBounded ==
    /\ ENABLED Process
    /\ last.op = "process" =>
          /\ last.n <= max_mesh_per_frame
          /\ last.args[2] <= max_concurrent_gen

\* a call has submitted as many jobs as the cap allows and has left entries
\* in the generation queue
C19_Witness ==
    /\ last.op = "process"
    /\ last.args[2] = max_concurrent_gen
    /\ last.n = 0
    /\ generation_queue # <<>>
    /\ Cardinality(currently_generating) = max_concurrent_gen

C22_TiesInRequestOrder ==
    \A i, j \in 1 .. Len(generation_queue) :
        ( /\ i < j
          /\ generation_queue[i][1] = generation_queue[j][1]
          /\ generation_queue[i][2] # generation_queue[j][2] )
        => \E a, b \in 1 .. Len(asked) :
              /\ a < b
              /\ asked[a] = generation_queue[i]
              /\ asked[b] = generation_queue[j]

(* C22: the dispatch order is reproducible: the generation queue is        *)
(* ordered by priority and, among equal priorities, by position (x, then   *)
(* z); it is the same whatever the order of the requests, and              *)
(* process_queued_chunks pops it from the front.                           *)
C22_TiesInPositionOrder ==
    [][ /\ \A i, j \in 1 .. Len(generation_queue') :
              i < j =>
                \/ generation_queue'[i][1] < generation_queue'[j][1]
                \/ /\ generation_queue'[i][1] = generation_queue'[j][1]
                   /\ ~PosLess(generation_queue'[j][2], generation_queue'[i][2])
        /\ generation_queue' = PutReversed(asked')
        /\ last'.op = "process" =>
              generation_queue' =
                  SubSeq(generation_queue,
                         Len(generation_queue) - Len(generation_queue') + 1,
                         Len(generation_queue)) ]_vars

\* of two waiting entries of equal priority the one in front was requested
\* after the other
C22_Witness ==
    /\ last.op = "request"
    /\ \E i, j \in 1 .. Len(generation_queue) :
          /\ i < j
          /\ generation_queue[i][1] = generation_queue[j][1]
          /\ generation_queue[i][2] # generation_queue[j][2]
          /\ \A a, b \in 1 .. Len(asked) :
                (asked[a] = generation_queue[i] /\ asked[b] = generation_queue[j])
                    => b < a

(* C23: seam continuity: the heightmap of a chunk and those of its        *)
(* neighbours to the east and to the south agree at every shared vertex:   *)
(* column N of (cx, cz) is column 0 of (cx+1, cz) and row N of (cx, cz) is *)
(* row 0 of (cx, cz+1), for every chunk size and both generators.          *)
C23_SeamContinuity ==
    calc.stage \in {"heightmap", "mesh"} =>
        /\ \A z \in 0 .. calc.chunk_size :
              calc.heightmap[z][calc.chunk_size] = calc.east[z][0]
        /\ \A x \in 0 .. calc.chunk_size :
              calc.heightmap[calc.chunk_size][x] = calc.south[0][x]

(* C24: the mesh of a chunk of size N has (N+1)^2 vertices, as many colors, *)
(* the color of a vertex being that of its world position, and 6*N*N       *)
(* triangle indices (2*N*N triangles).                                     *)
C24_MeshSizes ==
    calc.stage = "mesh" =>
        LET N == calc.chunk_size
            mesh == calc.mesh
        IN  /\ Len(mesh.vertices) = (N + 1) * (N + 1)
            /\ Len(mesh.colors) = Len(mesh.vertices)
            /\ \A i \in 1 .. Len(mesh.vertices) :
                  mesh.colors[i] =
                      TerrainParams(calc.world,
                                    calc.chunk[1] * N + mesh.vertices[i][1],
                                    calc.chunk[2] * N + mesh.vertices[i][3]).color
            /\ Len(mesh.triangles) = 6 * N * N

\* the mesh of a chunk of the size the game uses
C24_Witness ==
    /\ calc # <<>>
    /\ calc.stage = "mesh"
    /\ calc.chunk_size = CHUNK_SIZE
    /\ Len(calc.mesh.vertices) = 25
    /\ Len(calc.mesh.triangles) = 96

(* C25: every triangle index is a vertex number, 0 .. (N+1)^2 - 1; the     *)
(* k-th six indices are the two triangles of the quad (x, z) = (k % N,     *)
(* k \div N) over its four corners, they share the diagonal from corner    *)
(* (x+1, z) to corner (x, z+1) and turn the same way; no quad starts in    *)
(* the last row or column.                                                 *)
C25_QuadTriangles ==
    calc.stage = "mesh" =>
        LET N == calc.chunk_size
            R == N + 1
            t == calc.mesh.triangles
            v == calc.mesh.vertices
            \* twice the signed area of triangle (a, b, c) in the x-z plane
            Turn(a, b, c) ==
                (v[b + 1][1] - v[a + 1][1]) * (v[c + 1][3] - v[a + 1][3])
              - (v[b + 1][3] - v[a + 1][3]) * (v[c + 1][1] - v[a + 1][1])
        IN  /\ \A i \in 1 .. Len(t) : t[i] \in 0 .. R * R - 1
            /\ Len(t) % 6 = 0
            /\ \A k \in 0 .. (Len(t) \div 6) - 1 :
                  LET x == k % N
                      z == k \div N
                      b == z * R + x
                      first == { t[6 * k + 1], t[6 * k + 2], t[6 * k + 3] }
                      second == { t[6 * k + 4], t[6 * k + 5], t[6 * k + 6] }
                  IN  /\ x < N /\ z < N
                      /\ first \cup second = { b, b + 1, b + R, b + R + 1 }
                      /\ first \cap second = { b + 1, b + R }
                      /\ Turn(t[6 * k + 1], t[6 * k + 2], t[6 * k + 3]) = 1
                      /\ Turn(t[6 * k + 4], t[6 * k + 5], t[6 * k + 6]) = 1
            /\ \A x, z \in 0 .. N - 1 :
                  \E k \in 0 .. (Len(t) \div 6) - 1 : t[6 * k + 1] = z * R + x

\* a mesh of several quads, built by TerrainChunk, whose last triangle ends
\* at the last vertex but one of the last row
C25_Witness ==
    /\ calc # <<>>
    /\ calc.stage = "mesh"
    /\ calc.builder = "chunk"
    /\ calc.chunk_size >= 2
    /\ \E i \in 1 .. Len(calc.mesh.triangles) :
          calc.mesh.triangles[i] = Len(calc.mesh.vertices) - 1

(* C26: in the strided generator the interpolation factor is 0 exactly at  *)
(* the multiples of the stride, the clamped neighbour index stays in the   *)
(* coarse grid, and the height at a vertex whose local x and z are both    *)
(* multiples of the stride is the coarse sample at its world coordinate.   *)
C26_LatticeSamples ==
    (calc # <<>> /\ calc.stage \in {"heightmap", "mesh"} /\ calc.builder = "chunk") =>
        LET N == calc.chunk_size
            base_samples == ((N + 1) \div base_resolution) + 1
        IN  /\ \A x \in 0 .. N :
                  /\ Fraction(x) = 0 <=> x % base_resolution = 0
                  /\ x \div base_resolution \in 0 .. base_samples - 1
                  /\ NextIndex(x \div base_resolution, base_samples)
                        \in 0 .. base_samples - 1
            /\ \A x, z \in 0 .. N :
                  (x % base_resolution = 0 /\ z % base_resolution = 0) =>
                      calc.heightmap[z][x] =
                          16 * CoarseSample(calc.world,
                                            calc.chunk[1] * N + x,
                                            calc.chunk[2] * N + z)

\* a strided heightmap with lattice vertices inside and on the border and
\* vertices in between whose height is no coarse sample
C26_Witness ==
    /\ calc # <<>>
    /\ calc.stage = "heightmap"
    /\ calc.builder = "chunk"
    /\ calc.chunk_size = CHUNK_SIZE
    /\ \E x \in 1 .. 3 :
          /\ calc.heightmap[0][x] # calc.heightmap[0][0]
          /\ calc.heightmap[0][x] # calc.heightmap[0][4]

(* C27: biome sampling is deterministic and pure: all the calls of        *)
(* get_blended_params with the same (x, z), from any thread and in any     *)
(* interleaving with other calls, return the same value, the value one     *)
(* call on the initial table gives, and biome_params stays as it was set   *)
(* up.                                                                     *)
C27_SamplingDeterministic ==
    /\ calc.biome_params = BiomeTable
    /\ \A r \in calc.results :
          r[2] = get_blended_params(BiomeTable, calc.seed, r[1][1], r[1][2]).value
    /\ \A r1, r2 \in calc.results : r1[1] = r2[1] => r1[2] = r2[2]

\* both threads have sampled one point whose parameters are blended, while
\* a thread is inside a call for another point
C27_Witness ==
    /\ calc # <<>>
    /\ calc.stage = "biome"
    /\ \E r \in calc.results :
          /\ calc.seen[r[1]] = Threads
          /\ \A b \in DOMAIN BiomeTable :
                /\ r[2].base_height # BiomeTable[b].base_height
                /\ r[2] # BiomeTable[b]
          /\ \E t \in Threads :
                /\ calc.running[t].busy
                /\ calc.running[t].point # r[1]

(* C28: the chunks-generated counter of a report is the number of chunks  *)
(* installed since the previous report.                                    *)
C28_GeneratedSinceLastReport ==
    stats.report # <<>> =>
        stats.report.chunks_generated = stats.reported_since

(* C29: get_stats returns a report only when at least one second has       *)
(* passed since the previous report and since the construction; a call     *)
(* that returns none leaves last_stats_update and the generation times     *)
(* unchanged.                                                              *)
C29_RateLimited ==
    [][ last'.op = "stats" =>
          IF stats'.report # <<>>
          THEN /\ stats'.now - stats.last_stats_update >= StatsPeriod
               /\ \/ stats.report_time = -1
                  \/ stats'.now - stats.report_time >= StatsPeriod
          ELSE /\ stats'.last_stats_update = stats.last_stats_update
               /\ stats'.generation_times = stats.generation_times ]_vars

\* a call less than a second after a report has returned none and has kept
\* the generation times collected since
C29_Witness ==
    /\ last.op = "stats"
    /\ last.n = 0
    /\ stats.report = <<>>
    /\ stats.report_time >= 0
    /\ stats.now - stats.report_time < StatsPeriod
    /\ stats.now > stats.report_time
    /\ stats.generation_times # <<>>

(* C30: dispatch is work-conserving: when process_queued_chunks returns,   *)
(* the in-flight set holds max_concurrent_gen positions or the generation  *)
(* queue is empty.                                                         *)
C30_WorkConserving ==
    [][ last'.op = "process" =>
          \/ Cardinality(currently_generating') = max_concurrent_gen
          \/ generation_queue' = <<>> ]_vars

(* C31: a worker result carries the priority its position was dispatched  *)
(* with (the job a call submits is the queue entry it popped, the result   *)
(* a worker puts is the entry of its job), and a process_queued_chunks     *)
(* call that takes results from the ready queue takes those of the lowest  *)
(* priority values: no result it takes has a priority value greater than   *)
(* that of a result it leaves waiting.                                     *)
C31_LowestPriorityFirst ==
    [][ /\ last'.op = "generated" =>
              \E i \in 1 .. Len(pool_running) :
                  /\ Len(ready_meshes') = Len(ready_meshes) + 1
                  /\ { ready_meshes'[j] : j \in 1 .. Len(ready_meshes') }
                       = { ready_meshes[j] : j \in 1 .. Len(ready_meshes) }
                           \cup { pool_running[i] }
        /\ last'.op = "process" =>
              /\ \A e \in ({ pool_running'[j] : j \in 1 .. Len(pool_running') }
                            \cup { pool_pending'[j] : j \in 1 .. Len(pool_pending') })
                         \ ({ pool_running[j] : j \in 1 .. Len(pool_running) }
                            \cup { pool_pending[j] : j \in 1 .. Len(pool_pending) }) :
                    \E j \in 1 .. Len(generation_queue) : generation_queue[j] = e
              /\ \A i \in 1 .. Len(ready_meshes) :
                    (\A j \in 1 .. Len(ready_meshes') :
                         ready_meshes'[j] # ready_meshes[i])
                      => \A j \in 1 .. Len(ready_meshes') :
                             ready_meshes[i][1] <= ready_meshes'[j][1] ]_vars

\* a call has taken max_mesh_per_frame results, the one of priority 0 among
\* them, and has left waiting results of greater priority values
C31_Witness ==
    /\ last.op = "process"
    /\ last.n = max_mesh_per_frame
    /\ Cardinality(DOMAIN chunks) >= max_mesh_per_frame
    /\ ready_meshes # <<>>
    /\ \A j \in 1 .. Len(ready_meshes) : ready_meshes[j][1] >= 1
    /\ <<0, 0>> \in DOMAIN chunks

(* C32: there are no orphan in-flight markers: every position in the      *)
(* in-flight set has exactly one job pending or running in the pool or     *)
(* exactly one result in the ready queue, also after a failed submission   *)
(* or an error during installation.                                        *)
C32_NoOrphanMarkers ==
    \A p \in currently_generating : Outstanding(p) = 1

(* C33: the ready queue holds at most one result per position, and every  *)
(* position with a result in the ready queue is in the in-flight set and   *)
(* is not in the chunk store.                                              *)
C33_ReadyResults ==
    \A i \in 1 .. Len(ready_meshes) :
        /\ \A j \in 1 .. Len(ready_meshes) :
              ready_meshes[j][2] = ready_meshes[i][2] => j = i
        /\ ready_meshes[i][2] \in currently_generating
        /\ ready_meshes[i][2] \notin DOMAIN chunks

\* two results wait in the ready queue, one of a position that was requested
\* again and has a duplicate entry in the generation queue, while another
\* position is Loaded
C33_Witness ==
    /\ Len(ready_meshes) >= 2
    /\ \E i \in 1 .. Len(ready_meshes) : Queued(ready_meshes[i][2])
    /\ DOMAIN chunks # {}

(* C34: within one tick every position requested lies inside the retained *)
(* region: a position at Euclidean distance at most VIEW_DISTANCE from the *)
(* viewpoint chunk is at Chebyshev distance at most VIEW_DISTANCE + border *)
(* and fails the test of remove_distant_chunks, so the eviction of the     *)
(* game loop, called with the viewpoint chunk the requests were made from, *)
(* removes no position inside the view distance: such a Loaded chunk keeps *)
(* its entity, enabled.                                                    *)
C34_RequestedRetained ==
    [][ last'.op = "evict" =>
          /\ last'.args = <<viewpoint[1], viewpoint[2], VIEW_DISTANCE>>
          /\ viewpoint' = viewpoint
          /\ \A p \in DOMAIN chunks :
                DistanceSq(p, viewpoint) <= VIEW_DISTANCE * VIEW_DISTANCE
                  => /\ p \in DOMAIN chunks'
                     /\ chunks'[p] = chunks[p]
                     /\ chunks[p] \in entities => chunks[p] \in entities'
          /\ \A dx, dz \in -(VIEW_DISTANCE + border + 1) .. VIEW_DISTANCE + border + 1 :
                dx * dx + dz * dz <= VIEW_DISTANCE * VIEW_DISTANCE
                  => /\ Chebyshev(<<viewpoint[1] + dx, viewpoint[2] + dz>>, viewpoint)
                          <= VIEW_DISTANCE + border
                     /\ ~TooFar(<<viewpoint[1] + dx, viewpoint[2] + dz>>,
                                viewpoint[1], viewpoint[2], VIEW_DISTANCE + border) ]_vars

\* the eviction of a tick has removed a chunk left behind by the player and
\* has kept a Loaded chunk inside the view distance
C34_Witness ==
    /\ last.op = "evict"
    /\ last.n >= 1
    /\ \E p \in DOMAIN chunks :
          DistanceSq(p, viewpoint) <= VIEW_DISTANCE * VIEW_DISTANCE

(* C35: the range score of a value against [min, max] is 1.0 (100         *)
(* hundredths) when min <= value <= max and otherwise 1.0 minus the        *)
(* distance from the value to the nearest end of the range: it is at most  *)
(* 1.0, is 1.0 only inside the range and falls by as much as the value     *)
(* moves away outside; the primary biome of a sampled point is one with    *)
(* the highest combined score.                                             *)
C35_RangeScoreArgmax ==
    LET Outside(v, lo, hi) ==
            IF v < lo THEN lo - v ELSE IF v > hi THEN v - hi ELSE 0
        ScoreOk(v, range) ==
            LET score == calculate_range_score(v, range[1], range[2])
            IN  /\ score = 100 - Outside(v, range[1], range[2])
                /\ score <= 100
                /\ score = 100 <=> (range[1] <= v /\ v <= range[2])
                /\ v < range[1] =>
                      calculate_range_score(v - 1, range[1], range[2]) = score - 1
                /\ v > range[2] =>
                      calculate_range_score(v + 1, range[1], range[2]) = score - 1
    IN  /\ \A b \in DOMAIN calc.biome_params, v \in ScoreValues :
              /\ ScoreOk(v, calc.biome_params[b].temperature_range)
              /\ ScoreOk(v, calc.biome_params[b].rainfall_range)
        /\ \A t \in Threads :
              calc.running[t].busy =>
                  LET x == calc.running[t].point[1]
                      z == calc.running[t].point[2]
                  IN  /\ get_temperature(calc.seed, x, z) \in ScoreValues
                      /\ get_moisture(calc.seed, x, z) \in ScoreValues
                      /\ \A b \in DOMAIN calc.biome_params :
                            BiomeScore(calc.biome_params, calc.seed, b, x, z)
                              <= BiomeScore(calc.biome_params, calc.seed,
                                            calc.running[t].primary_biome, x, z)

\* a thread is sampling a point whose temperature or moisture is outside
\* the range of its primary biome: the biome has won with a score below
\* the full one
C35_Witness ==
    /\ calc # <<>>
    /\ calc.stage = "biome"
    /\ \E t \in Threads :
          /\ calc.running[t].busy
          /\ LET x == calc.running[t].point[1]
                 z == calc.running[t].point[2]
                 params == calc.biome_params[calc.running[t].primary_biome]
             IN  \/ calculate_range_score(get_temperature(calc.seed, x, z),
                                          params.temperature_range[1],
                                          params.temperature_range[2]) < 100
                 \/ calculate_range_score(get_moisture(calc.seed, x, z),
                                          params.rainfall_range[1],
                                          params.rainfall_range[2]) < 100

(* C36: when none of the eight ring points at offsets of transition_width *)
(* around (x, z) has a biome different from the primary biome at (x, z),   *)
(* get_blended_params returns the parameters of the primary biome as the   *)
(* table has them; when some ring point differs, the value returned is a   *)
(* new record (the four blended fields and the defaults of BiomeParams)    *)
(* and the table entry of the primary biome is as it was set up.           *)
C36_UnblendedOrFresh ==
    \A r \in calc.results :
        LET x == r[1][1]
            z == r[1][2]
            primary_biome == get_biome_at(BiomeTable, calc.seed, x, z)
            differs ==
                \E dx, dz \in { -transition_width, 0, transition_width } :
                    /\ <<dx, dz>> # <<0, 0>>
                    /\ get_biome_at(BiomeTable, calc.seed, x + dx, z + dz)
                          # primary_biome
        IN  /\ calc.biome_params[primary_biome] = BiomeTable[primary_biome]
            /\ ~differs => r[2] = BiomeTable[primary_biome]
            /\ differs => r[2] = [r[2] EXCEPT !.temperature_range = <<0, 100>>,
                                              !.rainfall_range = <<0, 100>>]

\* one point has returned the table entry of its primary biome and another
\* a blend that differs from the entry of its primary biome in all four
\* fields
C36_Witness ==
    /\ calc # <<>>
    /\ calc.stage = "biome"
    /\ \E r \in calc.results : \E b \in DOMAIN BiomeTable : r[2] = BiomeTable[b]
    /\ \E r \in calc.results :
          LET entry == BiomeTable[get_biome_at(BiomeTable, calc.seed,
                                               r[1][1], r[1][2])]
          IN  /\ r[2].base_height # entry.base_height
              /\ r[2].height_variation # entry.height_variation
              /\ r[2].roughness # entry.roughness
              /\ r[2].color # entry.color

====
